---- MODULE Spec2Model ----
(***************************************************************************)
(* A model of examples/gym/train_pcl_gym.py: main() parses the command     *)
(* line, builds a model, an optimizer, a replay buffer and a PCL agent,    *)
(* and dispatches to one of three experiment drivers.  main() is a         *)
(* straight-line program; pc is its position.  The drivers and             *)
(* prepare_output_dir live in chainerrl.experiments, outside this file.    *)
(*                                                                         *)
(* Floats are exact rationals <<numerator, denominator>>.  Python's None   *)
(* is the empty set and a present value x is {x}.                          *)
(***************************************************************************)
EXTENDS Integers, Sequences, FiniteSets

VARIABLES
    pc,             \* position in main()
    args,           \* the argparse namespace
    parsed,         \* history: the namespace as parse_args returned it
    rng_seed,       \* what misc.set_random_seed was called with
    sample_env,     \* main's sample_env and the locals read from it
    envs,           \* environments returned by make_env, one record per holder
    model,          \* the PCLSeparateModel
    device,         \* the CUDA device made current by .use()
    opts,           \* every optimizer constructed, in order
    buffers,        \* every replay buffer constructed, in order
    agent,          \* the PCL agent
    loads,          \* the paths agent.load was called with, in order
    invoked,        \* how often each experiment driver was called
    handed,         \* ids of environment instances passed to a driver
    factory_given,  \* whether the async driver received make_env itself
    eval_result,    \* (mean, median, stdev) returned by eval_performance
    stdout,         \* printed lines
    workers         \* position of each worker process of the async driver

vars == <<pc, args, parsed, rng_seed, sample_env, envs, model, device, opts,
          buffers, agent, loads, invoked, handed, factory_given, eval_result,
          stdout, workers>>

(***************************************************************************)
(* Bounds of the model.                                                    *)
(***************************************************************************)
MaxProcesses == 2
MaxGpu == 1

None == {}
Some(x) == {x}

Main == <<"main", 0>>
Worker(i) == <<"worker", i>>

Drivers == {"eval_performance", "train_agent_async",
            "train_agent_with_evaluation"}

NoEnv == [kind |-> "none"]
NoModel == [kind |-> "none"]
NoAgent == [kind |-> "none"]
NoResult == [kind |-> "none"]

(***************************************************************************)
(* The parser's defaults.                                                  *)
(***************************************************************************)
Defaults ==
    [processes |-> 8,
     gpu |-> 0,
     env |-> "CartPole-v0",
     seed |-> None,
     outdir |-> None,
     batchsize |-> 10,
     rollout_len |-> 10,
     n_hidden_channels |-> 100,
     n_hidden_layers |-> 2,
     n_times_replay |-> 1,
     replay_start_size |-> 10000,
     t_max |-> None,
     tau |-> <<1, 100>>,
     profile |-> FALSE,
     steps |-> 8 * 10 ^ 7,
     eval_frequency |-> 10 ^ 5,
     eval_n_runs |-> 10,
     reward_scale_factor |-> <<1, 100>>,
     render |-> FALSE,
     lr |-> <<7, 10000>>,
     demo |-> FALSE,
     load |-> "",
     logger_level |-> 10,
     monitor |-> FALSE,
     train_async |-> FALSE,
     prioritized_replay |-> FALSE,
     disable_online_update |-> FALSE,
     backprop_future_values |-> TRUE]

(***************************************************************************)
(* Command lines explored: the flags the wiring branches on take every     *)
(* value; the numeric hyperparameters come as one of two profiles.         *)
(***************************************************************************)
EnvNames == {"CartPole-v0", "InvertedPendulum-v1",
             "LunarLanderContinuous-v2", "Copy-v0"}

Hyper ==
    {[lr |-> Defaults.lr, n_hidden_channels |-> Defaults.n_hidden_channels,
      n_hidden_layers |-> Defaults.n_hidden_layers,
      eval_n_runs |-> Defaults.eval_n_runs, seed |-> Defaults.seed],
     [lr |-> <<1, 1000>>, n_hidden_channels |-> 50, n_hidden_layers |-> 3,
      eval_n_runs |-> 5, seed |-> Some(0)]}

CommandLines ==
    {[Defaults EXCEPT
        !.processes = p, !.gpu = g, !.env = e, !.outdir = o,
        !.seed = h.seed,
        !.lr = h.lr, !.n_hidden_channels = h.n_hidden_channels,
        !.n_hidden_layers = h.n_hidden_layers, !.eval_n_runs = h.eval_n_runs,
        !.render = fl.render, !.demo = fl.demo, !.load = l,
        !.monitor = fl.monitor, !.train_async = fl.train_async,
        !.prioritized_replay = fl.prioritized_replay] :
     p \in 1..MaxProcesses, g \in -1..MaxGpu, e \in EnvNames,
     o \in {None, Some("results")}, h \in Hyper, l \in {"", "agent_dir"},
     fl \in [render : BOOLEAN, demo : BOOLEAN, monitor : BOOLEAN,
             train_async : BOOLEAN, prioritized_replay : BOOLEAN]}

Init ==
    /\ pc = "parse_args"
    /\ args = Defaults
    /\ parsed = Defaults
    /\ rng_seed = None
    /\ sample_env = NoEnv
    /\ envs = {}
    /\ model = NoModel
    /\ device = None
    /\ opts = <<>>
    /\ buffers = <<>>
    /\ agent = NoAgent
    /\ loads = <<>>
    /\ invoked = [d \in Drivers |-> 0]
    /\ handed = {}
    /\ factory_given = FALSE
    /\ eval_result = NoResult
    /\ stdout = <<>>
    /\ workers = <<>>

\* parser.parse_args()
ParseArgs ==
    /\ pc = "parse_args"
    /\ \E a \in CommandLines : args' = a /\ parsed' = a
    /\ pc' = "configure"
    /\ UNCHANGED <<rng_seed, sample_env, envs, model, device, opts, buffers,
                   agent, loads, invoked, handed, factory_given, eval_result,
                   stdout, workers>>

\* logging level, and the seed when one is given
Configure ==
    /\ pc = "configure"
    /\ rng_seed' = IF args.seed # None THEN args.seed ELSE rng_seed
    /\ pc' = "prepare_output_dir"
    /\ UNCHANGED <<args, parsed, sample_env, envs, model, device, opts,
                   buffers, agent, loads, invoked, handed, factory_given,
                   eval_result, stdout, workers>>

\* experiments.prepare_output_dir(args, user_specified_dir): the directory
\* the run writes to; a fresh temporary one when none was specified
prepare_output_dir(a, user_specified_dir) ==
    IF user_specified_dir # None THEN user_specified_dir
    ELSE Some("tmp_outdir")

\* args.outdir = experiments.prepare_output_dir(args, args.outdir)
PrepareOutputDir ==
    /\ pc = "prepare_output_dir"
    /\ args' = [args EXCEPT !.outdir = prepare_output_dir(args, args.outdir)]
    /\ pc' = "sample_env"
    /\ UNCHANGED <<parsed, rng_seed, sample_env, envs, model, device, opts,
                   buffers, agent, loads, invoked, handed, factory_given,
                   eval_result, stdout, workers>>

(***************************************************************************)
(* What gym.make(name) yields for the environments explored: the           *)
(* observation space, the action space and the registered episode limit.   *)
(* Copy-v0 has a Tuple action space and a Discrete observation space.      *)
(* Observation bounds are rounded to integers; only their size is read.    *)
(***************************************************************************)
Box(low, high) == [type |-> "Box", low |-> low, high |-> high]
Discrete(n) == [type |-> "Discrete", n |-> n]

GymSpec(name) ==
    CASE name = "CartPole-v0" ->
           [observation_space |-> Box(<<-5, -9, -1, -9>>, <<5, 9, 1, 9>>),
            action_space |-> Discrete(2),
            max_episode_steps |-> Some(200)]
      [] name = "InvertedPendulum-v1" ->
           [observation_space |-> Box(<<-9, -9, -9, -9>>, <<9, 9, 9, 9>>),
            action_space |-> Box(<<-3>>, <<3>>),
            max_episode_steps |-> Some(1000)]
      [] name = "LunarLanderContinuous-v2" ->
           [observation_space |-> Box(<<-9, -9, -9, -9, -9, -9, -9, -9>>,
                                      <<9, 9, 9, 9, 9, 9, 9, 9>>),
            action_space |-> Box(<<-1, -1>>, <<1, 1>>),
            max_episode_steps |-> Some(1000)]
      [] name = "Copy-v0" ->
           [observation_space |-> Discrete(6),
            action_space |-> [type |-> "Tuple"],
            max_episode_steps |-> Some(200)]

\* ndarray.size of a one-dimensional array
Size(array) == Len(array)

\* The next instance a process creates: instances are told apart by the
\* process that created them and a serial number within it.
Created(proc) ==
    {e.env.id : e \in {x \in envs : x.env.id[1] = proc}}
    \cup (IF sample_env # NoEnv /\ sample_env.id[1] = proc
          THEN {sample_env.id} ELSE {})

FreshId(proc) == <<proc, Cardinality(Created(proc)) + 1>>

\* sample_env = gym.make(args.env) and the three locals read from it
MakeSampleEnv ==
    /\ pc = "sample_env"
    /\ sample_env' =
         [id |-> FreshId(Main),
          holder |-> Main,
          timestep_limit |-> GymSpec(args.env).max_episode_steps,
          obs_space |-> GymSpec(args.env).observation_space,
          action_space |-> GymSpec(args.env).action_space]
    /\ pc' = "build_model"
    /\ UNCHANGED <<args, parsed, rng_seed, envs, model, device, opts, buffers,
                   agent, loads, invoked, handed, factory_given, eval_result,
                   stdout, workers>>

FCVFunction(n_input, n_hidden_channels, n_hidden_layers) ==
    [kind |-> "FCVFunction", n_input_channels |-> n_input,
     n_hidden_channels |-> n_hidden_channels,
     n_hidden_layers |-> n_hidden_layers]

\* Mutant: max_action is given the lower bound
GaussianModel_LowTwice(a, obs_space, action_space) ==
    [kind |-> "PCLSeparateModel",
     pi |-> [kind |-> "FCGaussianPolicy",
             n_input_channels |-> Size(obs_space.low),
             action_size |-> Size(action_space.low),
             n_hidden_channels |-> a.n_hidden_channels,
             n_hidden_layers |-> a.n_hidden_layers,
             bound_mean |-> TRUE,
             min_action |-> action_space.low,
             max_action |-> action_space.low,
             var_type |-> "diagonal"],
     v |-> FCVFunction(Size(obs_space.low), a.n_hidden_channels,
                       a.n_hidden_layers),
     gpu |-> None]

\* the isinstance(action_space, gym.spaces.Box) branch
GaussianModel(a, obs_space, action_space) ==
    [kind |-> "PCLSeparateModel",
     pi |-> [kind |-> "FCGaussianPolicy",
             n_input_channels |-> Size(obs_space.low),
             action_size |-> Size(action_space.low),
             n_hidden_channels |-> a.n_hidden_channels,
             n_hidden_layers |-> a.n_hidden_layers,
             bound_mean |-> TRUE,
             min_action |-> action_space.low,
             max_action |-> action_space.high,
             var_type |-> "diagonal"],
     v |-> FCVFunction(Size(obs_space.low), a.n_hidden_channels,
                       a.n_hidden_layers),
     gpu |-> None]

\* the else branch
SoftmaxModel(a, obs_space, action_space) ==
    [kind |-> "PCLSeparateModel",
     pi |-> [kind |-> "FCSoftmaxPolicy",
             n_input_channels |-> Size(obs_space.low),
             n_actions |-> action_space.n,
             n_hidden_channels |-> a.n_hidden_channels,
             n_hidden_layers |-> a.n_hidden_layers],
     v |-> FCVFunction(Size(obs_space.low), a.n_hidden_channels,
                       a.n_hidden_layers),
     gpu |-> None]

\* The attributes the else branch reads exist: obs_space.low, action_space.n
SoftmaxArgsExist(obs_space, action_space) ==
    /\ obs_space.type = "Box"
    /\ action_space.type = "Discrete"

\* Switch policy types accordingly to action space types
BuildModel ==
    /\ pc = "build_model"
    /\ LET obs_space == sample_env.obs_space
           action_space == sample_env.action_space
       IN IF action_space.type = "Box"
          THEN /\ model' = GaussianModel(args, obs_space, action_space)
               /\ pc' = "select_device"
          ELSE IF SoftmaxArgsExist(obs_space, action_space)
          THEN /\ model' = SoftmaxModel(args, obs_space, action_space)
               /\ pc' = "select_device"
          ELSE /\ model' = model
               /\ pc' = "error"
    /\ UNCHANGED <<args, parsed, rng_seed, sample_env, envs, device, opts,
                   buffers, agent, loads, invoked, handed, factory_given,
                   eval_result, stdout, workers>>

\* Mutant: the train_async test is lost
UseGpu_IgnoresAsync(a) == a.gpu >= 0

\* if not args.train_async and args.gpu >= 0
UseGpu(a) == ~a.train_async /\ a.gpu >= 0

\* Mutant: the step also rewrites args.gpu when no device is used
SelectDevice_ClearsGpu ==
    /\ pc = "select_device"
    /\ IF ~args.train_async /\ args.gpu >= 0
       THEN /\ device' = Some(args.gpu)
            /\ model' = [model EXCEPT !.gpu = Some(args.gpu)]
            /\ args' = args
       ELSE /\ args' = [args EXCEPT !.gpu = -1]
            /\ UNCHANGED <<device, model>>
    /\ pc' = "make_optimizer"
    /\ UNCHANGED <<parsed, rng_seed, sample_env, envs, opts, buffers, agent,
                   loads, invoked, handed, factory_given, eval_result,
                   stdout, workers>>

\* chainer.cuda.get_device(args.gpu).use(); model.to_gpu(args.gpu)
SelectDevice ==
    /\ pc = "select_device"
    /\ IF UseGpu(args)
       THEN /\ device' = Some(args.gpu)
            /\ model' = [model EXCEPT !.gpu = Some(args.gpu)]
       ELSE UNCHANGED <<device, model>>
    /\ pc' = "make_optimizer"
    /\ UNCHANGED <<args, parsed, rng_seed, sample_env, envs, opts, buffers,
                   agent, loads, invoked, handed, factory_given, eval_result,
                   stdout, workers>>

\* Mutant: Adam is left at its default step size
NewOptimizer_DefaultAdam(a) ==
    IF a.train_async
    THEN [kind |-> "RMSpropAsync", lr |-> a.lr, alpha |-> <<99, 100>>,
          target |-> None, setups |-> 0]
    ELSE [kind |-> "Adam", alpha |-> <<1, 1000>>, target |-> None,
          setups |-> 0]

\* RMSpropAsync(lr=args.lr, alpha=0.99) or Adam(alpha=args.lr); Adam's
\* alpha is its step size
NewOptimizer(a) ==
    IF a.train_async
    THEN [kind |-> "RMSpropAsync", lr |-> a.lr, alpha |-> <<99, 100>>,
          target |-> None, setups |-> 0]
    ELSE [kind |-> "Adam", alpha |-> a.lr, target |-> None, setups |-> 0]

MakeOptimizer ==
    /\ pc = "make_optimizer"
    /\ opts' = Append(opts, NewOptimizer(args))
    /\ pc' = "setup_optimizer"
    /\ UNCHANGED <<args, parsed, rng_seed, sample_env, envs, model, device,
                   buffers, agent, loads, invoked, handed, factory_given,
                   eval_result, stdout, workers>>

\* opt.setup(model), opt being the optimizer just constructed
SetupOptimizer ==
    /\ pc = "setup_optimizer"
    /\ opts' = [opts EXCEPT ![Len(opts)] =
                  [@ EXCEPT !.target = Some(model.kind),
                            !.setups = @ + 1]]
    /\ pc' = "make_replay_buffer"
    /\ UNCHANGED <<args, parsed, rng_seed, sample_env, envs, model, device,
                   buffers, agent, loads, invoked, handed, factory_given,
                   eval_result, stdout, workers>>

\* Mutant: the uniform buffer is sized by replay_start_size
NewReplayBuffer_SizedByStart(a) ==
    IF a.prioritized_replay
    THEN [kind |-> "PrioritizedEpisodicReplayBuffer",
          capacity |-> 5 * 10 ^ 3,
          uniform_ratio |-> <<1, 10>>,
          default_priority_func |-> "exp_return_of_episode",
          wait_priority_after_sampling |-> FALSE,
          return_sample_weights |-> FALSE]
    ELSE [kind |-> "EpisodicReplayBuffer", capacity |-> a.replay_start_size]

NewReplayBuffer(a) ==
    IF a.prioritized_replay
    THEN [kind |-> "PrioritizedEpisodicReplayBuffer",
          capacity |-> 5 * 10 ^ 3,
          uniform_ratio |-> <<1, 10>>,
          default_priority_func |-> "exp_return_of_episode",
          wait_priority_after_sampling |-> FALSE,
          return_sample_weights |-> FALSE]
    ELSE [kind |-> "EpisodicReplayBuffer", capacity |-> 5 * 10 ^ 3]

MakeReplayBuffer ==
    /\ pc = "make_replay_buffer"
    /\ buffers' = Append(buffers, NewReplayBuffer(args))
    /\ pc' = "make_agent"
    /\ UNCHANGED <<args, parsed, rng_seed, sample_env, envs, model, device,
                   opts, agent, loads, invoked, handed, factory_given,
                   eval_result, stdout, workers>>

\* chainerrl.agents.PCL(model, opt, replay_buffer=replay_buffer, ...): the
\* agent refers to the optimizer and the buffer by their position
NewAgent(a, opt, replay_buffer) ==
    [kind |-> "PCL", model |-> model.kind, optimizer |-> opt,
     replay_buffer |-> replay_buffer,
     t_max |-> a.t_max, gamma |-> <<99, 100>>, tau |-> a.tau,
     rollout_len |-> a.rollout_len, n_times_replay |-> a.n_times_replay,
     replay_start_size |-> a.replay_start_size, batchsize |-> a.batchsize,
     train_async |-> a.train_async,
     disable_online_update |-> a.disable_online_update,
     backprop_future_values |-> a.backprop_future_values]

MakeAgent ==
    /\ pc = "make_agent"
    /\ agent' = NewAgent(args, Len(opts), Len(buffers))
    /\ pc' = "load"
    /\ UNCHANGED <<args, parsed, rng_seed, sample_env, envs, model, device,
                   opts, buffers, loads, invoked, handed, factory_given,
                   eval_result, stdout, workers>>

\* Mutant: the checkpoint is restored in demo runs only
ShouldLoad_DemoOnly(a) == a.load # "" /\ a.demo

\* if args.load: a non-empty string is true
ShouldLoad(a) == a.load # ""

\* agent.load(args.load)
LoadAgent ==
    /\ pc = "load"
    /\ loads' = IF ShouldLoad(args) THEN Append(loads, args.load) ELSE loads
    /\ pc' = "dispatch"
    /\ UNCHANGED <<args, parsed, rng_seed, sample_env, envs, model, device,
                   opts, buffers, agent, invoked, handed, factory_given,
                   eval_result, stdout, workers>>

(***************************************************************************)
(* make_env(process_idx, test), called by process proc.  gym.make builds   *)
(* a new instance; the three conditionals then modify it.                  *)
(***************************************************************************)
gym_make(name, proc) ==
    [id |-> FreshId(proc), holder |-> proc, name |-> name,
     wrappers |-> <<>>, monitor_dir |-> None, reward_filter |-> None,
     rendered |-> FALSE]

\* env = gym.wrappers.Monitor(env, args.outdir)
Monitor(env, directory) ==
    [env EXCEPT !.wrappers = Append(@, "Monitor"), !.monitor_dir = directory]

\* misc.env_modifiers.make_reward_filtered(env, lambda x: x * factor)
make_reward_filtered(env, factor) ==
    [env EXCEPT !.reward_filter = Some(factor)]

\* misc.env_modifiers.make_rendered(env)
make_rendered(env) == [env EXCEPT !.rendered = TRUE]

\* Mutant: rendering is not restricted to process 0
make_env_RenderAll(a, proc, process_idx, test) ==
    LET env0 == gym_make(a.env, proc)
        env1 == IF a.monitor /\ process_idx = 0
                THEN Monitor(env0, a.outdir) ELSE env0
        env2 == IF ~test
                THEN make_reward_filtered(env1, a.reward_scale_factor)
                ELSE env1
        env3 == IF a.render /\ ~test
                THEN make_rendered(env2) ELSE env2
    IN  [env |-> env3, process_idx |-> process_idx, test |-> test]

\* Mutant: the factory wraps main's sample_env instead of a new instance
make_env_SharedSample(a, proc, process_idx, test) ==
    LET env0 == [gym_make(a.env, proc) EXCEPT !.id = sample_env.id]
        env1 == IF a.monitor /\ process_idx = 0
                THEN Monitor(env0, a.outdir) ELSE env0
        env2 == IF ~test
                THEN make_reward_filtered(env1, a.reward_scale_factor)
                ELSE env1
        env3 == IF a.render /\ process_idx = 0 /\ ~test
                THEN make_rendered(env2) ELSE env2
    IN  [env |-> env3, process_idx |-> process_idx, test |-> test]

make_env(a, proc, process_idx, test) ==
    LET env0 == gym_make(a.env, proc)
        env1 == IF a.monitor /\ process_idx = 0
                THEN Monitor(env0, a.outdir) ELSE env0
        env2 == IF ~test
                THEN make_reward_filtered(env1, a.reward_scale_factor)
                ELSE env1
        env3 == IF a.render /\ process_idx = 0 /\ ~test
                THEN make_rendered(env2) ELSE env2
    IN  [env |-> env3, process_idx |-> process_idx, test |-> test]

\* The environments main itself obtained from make_env
MainEnvs == {e \in envs : e.env.holder = Main}

(***************************************************************************)
(* if args.demo: evaluation only                                           *)
(***************************************************************************)
\* env = make_env(0, True)
DemoMakeEnv ==
    /\ pc = "dispatch"
    /\ args.demo
    /\ envs' = envs \cup {make_env(args, Main, 0, TRUE)}
    /\ pc' = "eval_performance"
    /\ UNCHANGED <<args, parsed, rng_seed, sample_env, model, device, opts,
                   buffers, agent, loads, invoked, handed, factory_given,
                   eval_result, stdout, workers>>

\* The statistics a run of eval_performance can return
Statistics ==
    [mean : {195, 200}, median : {195, 200}, stdev : {0, 5}]

\* mean, median, stdev = experiments.eval_performance(env=env, agent=agent,
\*     n_runs=args.eval_n_runs, max_episode_len=timestep_limit)
EvalPerformance ==
    /\ pc = "eval_performance"
    /\ invoked' = [invoked EXCEPT !["eval_performance"] = @ + 1]
    /\ handed' = handed \cup {e.env.id : e \in MainEnvs}
    /\ \E r \in Statistics : eval_result' = r
    /\ pc' = "print_summary"
    /\ UNCHANGED <<args, parsed, rng_seed, sample_env, envs, model, device,
                   opts, buffers, agent, loads, factory_given, stdout,
                   workers>>

(***************************************************************************)
(* str.format: a template is a sequence of literal pieces and replacement  *)
(* fields {}; the i-th field is replaced by the i-th argument, and         *)
(* arguments beyond the last field are ignored.                            *)
(***************************************************************************)
Lit(text) == [kind |-> "lit", text |-> text]
Field == [kind |-> "field"]
Val(v) == [kind |-> "val", value |-> v]

RECURSIVE FormatFrom(_, _, _)
FormatFrom(template, fargs, next) ==
    IF template = <<>> THEN <<>>
    ELSE IF Head(template).kind = "field"
         THEN <<Val(fargs[next])>> \o FormatFrom(Tail(template), fargs, next + 1)
         ELSE <<Head(template)>> \o FormatFrom(Tail(template), fargs, next)

Format(template, fargs) == FormatFrom(template, fargs, 1)

\* 'n_runs: {} mean: {} median: {} stdev'
SummaryTemplate ==
    <<Lit("n_runs: "), Field, Lit(" mean: "), Field, Lit(" median: "), Field,
      Lit(" stdev")>>

\* print('n_runs: {} mean: {} median: {} stdev'.format(
\*     args.eval_n_runs, mean, median, stdev))
PrintSummary ==
    /\ pc = "print_summary"
    /\ stdout' = Append(stdout,
                        Format(SummaryTemplate,
                               <<args.eval_n_runs, eval_result.mean,
                                 eval_result.median, eval_result.stdev>>))
    /\ pc' = "done"
    /\ UNCHANGED <<args, parsed, rng_seed, sample_env, envs, model, device,
                   opts, buffers, agent, loads, invoked, handed,
                   factory_given, eval_result, workers>>

(***************************************************************************)
(* else, if args.train_async: the asynchronous driver.  It gets the        *)
(* factory make_env and runs args.processes workers; each worker builds    *)
(* its training environment and its evaluation environment through the     *)
(* factory, trains until the step budget is spent, and ends.               *)
(***************************************************************************)
\* Mutant: the async branch is not nested under the else of args.demo
TrainAgentAsync_NotNested ==
    /\ \/ pc = "dispatch" /\ ~args.demo
       \/ pc = "done" /\ args.demo /\ invoked["train_agent_async"] = 0
    /\ args.train_async
    /\ invoked' = [invoked EXCEPT !["train_agent_async"] = @ + 1]
    /\ factory_given' = TRUE
    /\ workers' = [i \in 0..(args.processes - 1) |-> "start"]
    /\ pc' = "train_agent_async"
    /\ UNCHANGED <<args, parsed, rng_seed, sample_env, envs, model, device,
                   opts, buffers, agent, loads, handed, eval_result, stdout>>

TrainAgentAsync ==
    /\ pc = "dispatch"
    /\ ~args.demo
    /\ args.train_async
    /\ invoked' = [invoked EXCEPT !["train_agent_async"] = @ + 1]
    /\ factory_given' = TRUE
    /\ workers' = [i \in 0..(args.processes - 1) |-> "start"]
    /\ pc' = "train_agent_async"
    /\ UNCHANGED <<args, parsed, rng_seed, sample_env, envs, model, device,
                   opts, buffers, agent, loads, handed, eval_result, stdout>>

WorkerMakeEnv(i) ==
    /\ pc = "train_agent_async"
    /\ workers[i] = "start"
    /\ envs' = envs \cup {make_env(args, Worker(i), i, FALSE)}
    /\ workers' = [workers EXCEPT ![i] = "has_env"]
    /\ UNCHANGED <<pc, args, parsed, rng_seed, sample_env, model, device,
                   opts, buffers, agent, loads, invoked, handed,
                   factory_given, eval_result, stdout>>

WorkerMakeEvalEnv(i) ==
    /\ pc = "train_agent_async"
    /\ workers[i] = "has_env"
    /\ envs' = envs \cup {make_env(args, Worker(i), i, TRUE)}
    /\ workers' = [workers EXCEPT ![i] = "training"]
    /\ UNCHANGED <<pc, args, parsed, rng_seed, sample_env, model, device,
                   opts, buffers, agent, loads, invoked, handed,
                   factory_given, eval_result, stdout>>

WorkerFinish(i) ==
    /\ pc = "train_agent_async"
    /\ workers[i] = "training"
    /\ workers' = [workers EXCEPT ![i] = "done"]
    /\ UNCHANGED <<pc, args, parsed, rng_seed, sample_env, envs, model,
                   device, opts, buffers, agent, loads, invoked, handed,
                   factory_given, eval_result, stdout>>

AsyncJoin ==
    /\ pc = "train_agent_async"
    /\ \A i \in DOMAIN workers : workers[i] = "done"
    /\ pc' = "done"
    /\ UNCHANGED <<args, parsed, rng_seed, sample_env, envs, model, device,
                   opts, buffers, agent, loads, invoked, handed,
                   factory_given, eval_result, stdout, workers>>

(***************************************************************************)
(* else: the synchronous driver.  Its keyword arguments are evaluated in   *)
(* order: env=make_env(0, test=False), then eval_env=make_env(0,           *)
(* test=True), then the call.                                              *)
(***************************************************************************)
SyncMakeEnv ==
    /\ pc = "dispatch"
    /\ ~args.demo
    /\ ~args.train_async
    /\ envs' = envs \cup {make_env(args, Main, 0, FALSE)}
    /\ pc' = "sync_eval_env"
    /\ UNCHANGED <<args, parsed, rng_seed, sample_env, model, device, opts,
                   buffers, agent, loads, invoked, handed, factory_given,
                   eval_result, stdout, workers>>

SyncMakeEvalEnv ==
    /\ pc = "sync_eval_env"
    /\ envs' = envs \cup {make_env(args, Main, 0, TRUE)}
    /\ pc' = "train_agent_with_evaluation"
    /\ UNCHANGED <<args, parsed, rng_seed, sample_env, model, device, opts,
                   buffers, agent, loads, invoked, handed, factory_given,
                   eval_result, stdout, workers>>

TrainAgentWithEvaluation ==
    /\ pc = "train_agent_with_evaluation"
    /\ invoked' = [invoked EXCEPT !["train_agent_with_evaluation"] = @ + 1]
    /\ handed' = handed \cup {e.env.id : e \in MainEnvs}
    /\ pc' = "done"
    /\ UNCHANGED <<args, parsed, rng_seed, sample_env, envs, model, device,
                   opts, buffers, agent, loads, factory_given, eval_result,
                   stdout, workers>>

Next ==
    \/ ParseArgs
    \/ Configure
    \/ PrepareOutputDir
    \/ MakeSampleEnv
    \/ BuildModel
    \/ SelectDevice
    \/ MakeOptimizer
    \/ SetupOptimizer
    \/ MakeReplayBuffer
    \/ MakeAgent
    \/ LoadAgent
    \/ DemoMakeEnv
    \/ EvalPerformance
    \/ PrintSummary
    \/ TrainAgentAsync
    \/ \E i \in DOMAIN workers : WorkerMakeEnv(i)
    \/ \E i \in DOMAIN workers : WorkerMakeEvalEnv(i)
    \/ \E i \in DOMAIN workers : WorkerFinish(i)
    \/ AsyncJoin
    \/ SyncMakeEnv
    \/ SyncMakeEvalEnv
    \/ TrainAgentWithEvaluation

Spec == Init /\ [][Next]_vars

(***************************************************************************)
(* Positions of main() in program order; the three branches share the      *)
(* prefix up to "dispatch".  "error" is the uncaught failure of the model  *)
(* builder.                                                                *)
(***************************************************************************)
Prefix ==
    <<"parse_args", "configure", "prepare_output_dir", "sample_env",
      "build_model", "select_device", "make_optimizer", "setup_optimizer",
      "make_replay_buffer", "make_agent", "load", "dispatch">>

UpTo(label) ==
    {Prefix[i] : i \in {j \in 1..Len(Prefix) :
                          \E k \in j..Len(Prefix) : Prefix[k] = label}}

\* The statement at `label` has been executed
Past(label) == pc \notin UpTo(label) \cup {"error"}

Total(count) ==
    count["eval_performance"] + count["train_agent_async"]
    + count["train_agent_with_evaluation"]

\* The driver the flags call for
Selected(a) ==
    IF a.demo THEN "eval_performance"
    ELSE IF a.train_async THEN "train_agent_async"
    ELSE "train_agent_with_evaluation"

\* C1: at most one driver call is ever made, it is the one the flags demo
\* and train_async select (demo wins over train_async), a run that has
\* left the dispatch has made no other call, and a finished run has made
\* that call exactly once.
C1_ExactlyOneDriver ==
    /\ Total(invoked) <= 1
    /\ \A d \in Drivers : invoked[d] = 1 => d = Selected(args)
    /\ args.demo => /\ invoked["train_agent_async"] = 0
                    /\ invoked["train_agent_with_evaluation"] = 0
    /\ pc \in {"print_summary", "train_agent_async", "done"} =>
         invoked[Selected(args)] = 1

C1_Witness ==
    /\ pc = "done"
    /\ args.demo
    /\ args.train_async
    /\ invoked["eval_performance"] = 1

\* C2: agent.load is called at most once and only with the --load path,
\* only after the agent exists; with a non-empty --load it has been called
\* by the time any make_env environment exists or any driver has been
\* invoked; with an empty --load it is never called.
C2_LoadBeforeUse ==
    /\ Len(loads) <= 1
    /\ args.load = "" => loads = <<>>
    /\ loads # <<>> => loads = <<args.load>> /\ agent # NoAgent
    /\ (args.load # "" /\ (envs # {} \/ Total(invoked) > 0 \/ pc = "done"))
         => Len(loads) = 1

C2_Witness ==
    /\ args.load # ""
    /\ loads = <<args.load>>
    /\ pc = "train_agent_async"
    /\ \E e \in envs : e.env.holder = Worker(0)

\* The values str.format put into a line, in order
PrintedValues(line) ==
    LET at == {i \in 1..Len(line) : line[i].kind = "val"}
        RECURSIVE Pick(_)
        Pick(i) == IF i > Len(line) THEN <<>>
                   ELSE IF i \in at THEN <<line[i].value>> \o Pick(i + 1)
                   ELSE Pick(i + 1)
    IN  Pick(1)

\* Each wanted value is printed, at a position of its own
ContainsAll(line, wanted) ==
    LET vals == PrintedValues(line)
    IN  \E f \in [1..Len(wanted) -> 1..Len(vals)] :
          /\ \A i, j \in 1..Len(wanted) : i # j => f[i] # f[j]
          /\ \A i \in 1..Len(wanted) : vals[f[i]] = wanted[i]

\* C3: the line a demo run prints contains the run count, the mean, the
\* median and the standard deviation.
C3_SummaryHasAllFour ==
    (pc = "done" /\ args.demo) =>
        /\ Len(stdout) = 1
        /\ ContainsAll(stdout[1],
                       <<args.eval_n_runs, eval_result.mean,
                         eval_result.median, eval_result.stdev>>)

\* C4, as claimed: once parse_args has returned, the record never differs
\* from what parse_args returned.
C4_ConfigImmutable == pc # "parse_args" => args = parsed

\* C4, amended: after parse_args has returned, every field other than
\* outdir keeps its value in every step, and outdir changes only in the
\* step that assigns it the result of prepare_output_dir.
C4_OnlyOutdirReassigned ==
    [][pc # "parse_args" =>
         /\ \A f \in DOMAIN args \ {"outdir"} : args'[f] = args[f]
         /\ pc # "prepare_output_dir" => args' = args]_vars

C4_Witness ==
    /\ pc = "done"
    /\ parsed.outdir = None
    /\ args.outdir # None
    /\ [args EXCEPT !.outdir = None] = parsed

\* C5: every environment make_env has returned is recorded iff monitor is
\* set and process_idx = 0, has its rewards scaled by reward_scale_factor
\* iff it is not a test environment, and is rendered iff render is set,
\* process_idx = 0 and it is not a test environment.
C5_EnvModifications ==
    \A e \in envs :
        /\ ("Monitor" \in {e.env.wrappers[i] : i \in DOMAIN e.env.wrappers})
             <=> (args.monitor /\ e.process_idx = 0)
        /\ e.env.monitor_dir # None => e.env.monitor_dir = args.outdir
        /\ e.env.reward_filter =
             (IF e.test THEN None ELSE Some(args.reward_scale_factor))
        /\ e.env.rendered <=> (args.render /\ e.process_idx = 0 /\ ~e.test)
        /\ e.test => e.env.reward_filter = None /\ ~e.env.rendered
        /\ e.process_idx # 0 => e.env.wrappers = <<>> /\ ~e.env.rendered

C5_Witness ==
    /\ args.monitor
    /\ args.render
    /\ \E e \in envs : e.process_idx = 1 /\ ~e.test /\ ~e.env.rendered
    /\ \E e \in envs : e.process_idx = 0 /\ ~e.test /\ e.env.rendered
                       /\ e.env.wrappers = <<"Monitor">>
    /\ \E e \in envs : e.process_idx = 0 /\ e.test /\ ~e.env.rendered
                       /\ e.env.wrappers = <<"Monitor">>

\* The step size an optimizer was constructed with
LearningRate(o) == IF o.kind = "Adam" THEN o.alpha ELSE o.lr

\* C6: at most one optimizer is ever constructed; once constructed it is
\* RMSpropAsync iff train_async is set and Adam otherwise, and it carries
\* the configured learning rate; it is set up on the model once, and from
\* then on stays so in every branch.
C6_OneOptimizer ==
    /\ Len(opts) <= 1
    /\ Past("make_optimizer") <=> Len(opts) = 1
    /\ \A i \in DOMAIN opts :
         /\ opts[i].kind = (IF args.train_async THEN "RMSpropAsync" ELSE "Adam")
         /\ LearningRate(opts[i]) = args.lr
         /\ opts[i].setups = (IF Past("setup_optimizer") THEN 1 ELSE 0)
         /\ opts[i].setups = 1 => opts[i].target = Some(model.kind)
    /\ agent # NoAgent => agent.optimizer = 1

C6_Witness ==
    /\ pc = "done"
    /\ args.demo
    /\ ~args.train_async
    /\ args.lr = <<1, 1000>>
    /\ opts = <<[kind |-> "Adam", alpha |-> <<1, 1000>>,
                 target |-> Some("PCLSeparateModel"), setups |-> 1]>>

\* C7: at most one replay buffer is ever constructed; once constructed it
\* is the prioritized episodic buffer with capacity 5000 and uniform ratio
\* 1/10 iff prioritized_replay is set, the uniform episodic buffer with
\* capacity 5000 otherwise; that buffer is the one the agent gets.
C7_OneReplayBuffer ==
    /\ Len(buffers) <= 1
    /\ Past("make_replay_buffer") <=> Len(buffers) = 1
    /\ \A i \in DOMAIN buffers :
         /\ buffers[i].capacity = 5000
         /\ IF args.prioritized_replay
            THEN /\ buffers[i].kind = "PrioritizedEpisodicReplayBuffer"
                 /\ buffers[i].uniform_ratio = <<1, 10>>
            ELSE buffers[i].kind = "EpisodicReplayBuffer"
    /\ agent # NoAgent => agent.replay_buffer = 1 /\ Len(buffers) = 1

C7_Witness ==
    /\ pc = "done"
    /\ args.prioritized_replay
    /\ args.train_async
    /\ agent # NoAgent
    /\ buffers[agent.replay_buffer].kind = "PrioritizedEpisodicReplayBuffer"

\* C8: once built, the model has a Gaussian policy bounded by the action
\* space's low and high with one action dimension per entry of low when
\* the action space is a Box, a softmax policy with action_space.n outputs
\* when it is Discrete, and in both cases a state-value network; policy
\* and value network have the configured hidden width and depth.
C8_ModelMatchesActionSpace ==
    /\ Past("build_model") <=> model # NoModel
    /\ model # NoModel =>
         LET space == sample_env.action_space
         IN  /\ space.type = "Box" =>
                  /\ model.pi.kind = "FCGaussianPolicy"
                  /\ model.pi.bound_mean
                  /\ model.pi.min_action = space.low
                  /\ model.pi.max_action = space.high
                  /\ model.pi.action_size = Len(space.low)
             /\ space.type = "Discrete" =>
                  /\ model.pi.kind = "FCSoftmaxPolicy"
                  /\ model.pi.n_actions = space.n
             /\ space.type \in {"Box", "Discrete"}
             /\ model.v.kind = "FCVFunction"
             /\ model.pi.n_hidden_channels = args.n_hidden_channels
             /\ model.pi.n_hidden_layers = args.n_hidden_layers
             /\ model.v.n_hidden_channels = args.n_hidden_channels
             /\ model.v.n_hidden_layers = args.n_hidden_layers

C8_Witness ==
    /\ model # NoModel
    /\ model.pi.kind = "FCGaussianPolicy"
    /\ model.pi.min_action = <<-1, -1>>
    /\ model.pi.max_action = <<1, 1>>
    /\ model.pi.action_size = 2
    /\ model.v.n_hidden_channels = 50

\* Every reference to an environment instance: the ones make_env returned
\* and main's sample_env
References ==
    {e.env : e \in envs}
    \cup (IF sample_env = NoEnv THEN {}
          ELSE {[id |-> sample_env.id, holder |-> sample_env.holder]})

\* C9: no environment instance is held by two processes; every make_env
\* call yields an instance of its own; a worker that has passed its
\* make_env call holds an environment; the async driver is given the
\* factory and no environment; the sample environment is never passed to
\* a driver.
C9_EnvPerProcess ==
    /\ \A r1, r2 \in References : r1.id = r2.id => r1.holder = r2.holder
    /\ \A e1, e2 \in envs : e1.env.id = e2.env.id => e1 = e2
    /\ \A i \in DOMAIN workers :
         workers[i] # "start" =>
           \E e \in envs : e.env.holder = Worker(i) /\ e.process_idx = i
    /\ factory_given <=> invoked["train_agent_async"] = 1
    /\ factory_given => handed = {}
    /\ sample_env # NoEnv => sample_env.id \notin handed

C9_Witness ==
    /\ pc = "train_agent_async"
    /\ DOMAIN workers = {0, 1}
    /\ workers[0] = "training"
    /\ workers[1] = "training"
    /\ Cardinality({e.env.id : e \in envs}) = 4
    /\ factory_given

\* C10: a device is made current, and the model moved to it, exactly when
\* train_async is not set and gpu >= 0, and then it is the device --gpu
\* names; otherwise no device is selected and the model stays where it is.
C10_GpuOnlySyncNonNegative ==
    /\ Past("select_device") /\ ~args.train_async /\ args.gpu >= 0
         => device = Some(args.gpu) /\ model.gpu = Some(args.gpu)
    /\ (args.train_async \/ args.gpu < 0)
         => device = None /\ (model # NoModel => model.gpu = None)
    /\ ~Past("select_device")
         => device = None /\ (model # NoModel => model.gpu = None)

C10_Witness ==
    /\ pc = "done"
    /\ args.train_async
    /\ args.gpu = 0
    /\ device = None
    /\ model.gpu = None
====
